---- MODULE Spec2Model ----
(***************************************************************************)
(* Model of the logistics/ERP server: the in-memory storage (MemStorage),  *)
(* the REST handlers of server/routes.ts and the reception and output      *)
(* forms of the client, which drive the REST API.                          *)
(*                                                                         *)
(* Records keep the fields that the handlers read or that reference other  *)
(* records; free-text fields (names, notes, units, dates) are left out.    *)
(* A record is a function from field names to values, so that an object    *)
(* built by spreading a request body (`{ ...body, id }`) has exactly the   *)
(* fields the body had.                                                    *)
(***************************************************************************)
EXTENDS Integers, FiniteSets, Sequences, TLC

VARIABLES storage, resp, nreq, inflight, observed

vars == <<storage, resp, nreq, inflight, observed>>

(***************************************************************************)
(* Bounds of the model.                                                    *)
(***************************************************************************)
\* number of user-level operations (requests, form submits) in a behaviour
MaxRequests == 2
\* number of handlers that may be suspended at an await at the same time
MaxInFlight == 2
\* number of detail lines of an output form
MaxLines == 2

(***************************************************************************)
(* JavaScript values of a product's currentStock: a number, null (the      *)
(* column is nullable), undefined (the field is missing) or NaN.           *)
(***************************************************************************)
Num(n) == [t |-> "number", n |-> n]
Null == [t |-> "null", n |-> 0]
Undefined == [t |-> "undefined", n |-> 0]
NaN == [t |-> "NaN", n |-> 0]

\* a null foreign key
NoId == 0

\* existingProduct.currentStock + quantity, quantity a number
JsAdd(a, q) ==
  IF a.t = "number" THEN Num(a.n + q)
  ELSE IF a.t = "null" THEN Num(q)
  ELSE NaN

\* quantity > product.currentStock, quantity a number
JsGreater(q, a) ==
  IF a.t = "number" THEN q > a.n
  ELSE IF a.t = "null" THEN q > 0
  ELSE FALSE

\* product.currentStock <= product.minStock: null converts to 0, undefined
\* to NaN, and a comparison with NaN is false
JsLessEq(a, b) ==
  /\ a.t \in {"number", "null"}
  /\ b.t \in {"number", "null"}
  /\ a.n <= b.n

\* obj.field of a JavaScript object: undefined when the field is missing
Field(obj, f) == IF f \in DOMAIN obj THEN obj[f] ELSE Undefined

\* { ...a, ...b }
Spread(a, b) ==
  [k \in DOMAIN a \cup DOMAIN b |-> IF k \in DOMAIN b THEN b[k] ELSE a[k]]

(***************************************************************************)
(* Map operations.                                                         *)
(***************************************************************************)
MapSet(m, k, v) == [i \in DOMAIN m \cup {k} |-> IF i = k THEN v ELSE m[i]]
MapDelete(m, k) == [i \in DOMAIN m \ {k} |-> m[i]]
Has(m, k) == k \in DOMAIN m

(***************************************************************************)
(* MemStorage.  Every create method takes the next id from its counter,    *)
(* stores { ...body, id } under it and returns the stored record; every    *)
(* update method merges the patch into the stored record, or returns       *)
(* undefined (here: found = FALSE) when the id is not stored.              *)
(***************************************************************************)
\* a create that takes the id from the size of the map instead of the counter
Create_IdFromSize(st, mp, ctr, body) ==
  LET id == Cardinality(DOMAIN st[mp]) + 1
      rec == Spread(body, [id |-> id])
  IN [st |-> [st EXCEPT ![mp] = MapSet(@, id, rec), ![ctr] = id + 1],
      ret |-> rec]

Create(st, mp, ctr, body) ==
  LET id == st[ctr]
      rec == Spread(body, [id |-> id])
  IN [st |-> [st EXCEPT ![mp] = MapSet(@, id, rec), ![ctr] = id + 1],
      ret |-> rec]

\* an update that stores the patch under an id that is not stored
Update_Upsert(st, mp, id, patch) ==
  LET rec == IF Has(st[mp], id) THEN Spread(st[mp][id], patch)
             ELSE Spread(patch, [id |-> id])
  IN [st |-> [st EXCEPT ![mp] = MapSet(@, id, rec)],
      found |-> TRUE, ret |-> rec]

Update(st, mp, id, patch) ==
  IF ~Has(st[mp], id)
  THEN [st |-> st, found |-> FALSE, ret |-> <<>>]
  ELSE LET rec == Spread(st[mp][id], patch)
       IN [st |-> [st EXCEPT ![mp] = MapSet(@, id, rec)],
           found |-> TRUE, ret |-> rec]

Delete(st, mp, id) ==
  [st |-> [st EXCEPT ![mp] = MapDelete(@, id)], ret |-> Has(st[mp], id)]

createUser(st, b) == Create(st, "users", "userId", b)

createSupplier(st, b) == Create(st, "suppliers", "supplierId", b)
updateSupplier(st, id, p) == Update(st, "suppliers", id, p)
deleteSupplier(st, id) == Delete(st, "suppliers", id)

createProduct(st, b) == Create(st, "products", "productId", b)
updateProduct(st, id, p) == Update(st, "products", id, p)
deleteProduct(st, id) == Delete(st, "products", id)

\* a stock update that is written together with the movement: nothing is
\* written by the call itself
updateProductStock_Deferred(st, id, quantity) ==
  [st |-> st, found |-> Has(st.products, id)]

updateProductStock(st, id, quantity) ==
  IF ~Has(st.products, id)
  THEN [st |-> st, found |-> FALSE]
  ELSE LET existingProduct == st.products[id]
           updatedProduct ==
             Spread(existingProduct,
                    [currentStock |->
                       JsAdd(Field(existingProduct, "currentStock"), quantity)])
       IN [st |-> [st EXCEPT !.products = MapSet(@, id, updatedProduct)],
           found |-> TRUE]

createRequirement(st, b) == Create(st, "requirements", "requirementId", b)
updateRequirement(st, id, p) == Update(st, "requirements", id, p)
createRequirementDetail(st, b) ==
  Create(st, "requirementDetails", "requirementDetailId", b)

createPurchaseOrder(st, b) == Create(st, "purchaseOrders", "purchaseOrderId", b)
updatePurchaseOrder(st, id, p) == Update(st, "purchaseOrders", id, p)
createPurchaseOrderDetail(st, b) ==
  Create(st, "purchaseOrderDetails", "purchaseOrderDetailId", b)

createReception(st, b) == Create(st, "receptions", "receptionId", b)
updateReception(st, id, p) == Update(st, "receptions", id, p)
createReceptionDetail(st, b) ==
  Create(st, "receptionDetails", "receptionDetailId", b)

createInventoryMovement(st, b) ==
  Create(st, "inventoryMovements", "inventoryMovementId", b)

createOutput(st, b) == Create(st, "outputs", "outputId", b)
updateOutput(st, id, p) == Update(st, "outputs", id, p)
createOutputDetail(st, b) == Create(st, "outputDetails", "outputDetailId", b)
updateOutputDetail(st, id, p) == Update(st, "outputDetails", id, p)

createInvoice(st, b) == Create(st, "invoices", "invoiceId", b)
updateInvoice(st, id, p) == Update(st, "invoices", id, p)

createSystemActivity(st, b) ==
  Create(st, "systemActivities", "systemActivityId", b)

\* storage.create<Entity>, storage.update<Entity> and storage.delete<Entity>
\* of the IStorage interface, by the map of the entity
storageCreate(st, mp, b) ==
  CASE mp = "suppliers" -> createSupplier(st, b)
    [] mp = "products" -> createProduct(st, b)
    [] mp = "requirements" -> createRequirement(st, b)
    [] mp = "requirementDetails" -> createRequirementDetail(st, b)
    [] mp = "purchaseOrders" -> createPurchaseOrder(st, b)
    [] mp = "purchaseOrderDetails" -> createPurchaseOrderDetail(st, b)
    [] mp = "receptions" -> createReception(st, b)
    [] mp = "outputs" -> createOutput(st, b)
    [] mp = "invoices" -> createInvoice(st, b)

storageUpdate(st, mp, id, p) ==
  CASE mp = "suppliers" -> updateSupplier(st, id, p)
    [] mp = "products" -> updateProduct(st, id, p)
    [] mp = "requirements" -> updateRequirement(st, id, p)
    [] mp = "purchaseOrders" -> updatePurchaseOrder(st, id, p)
    [] mp = "receptions" -> updateReception(st, id, p)
    [] mp = "invoices" -> updateInvoice(st, id, p)

storageDelete(st, mp, id) ==
  CASE mp = "suppliers" -> deleteSupplier(st, id)
    [] mp = "products" -> deleteProduct(st, id)

\* the ids of the products that getProductsWithLowStock returns
getProductsWithLowStock(st) ==
  {k \in DOMAIN st.products :
     JsLessEq(Field(st.products[k], "currentStock"),
              Field(st.products[k], "minStock"))}

getPendingRequirements(st) ==
  {k \in DOMAIN st.requirements : st.requirements[k].status = "pending"}

getActivePurchaseOrders(st) ==
  {k \in DOMAIN st.purchaseOrders :
     st.purchaseOrders[k].status \in {"pending", "confirmed"}}

\* the orders past their delivery date, whatever their status
getDelayedPurchaseOrders_AnyStatus(st, now) ==
  {k \in DOMAIN st.purchaseOrders :
     /\ "expectedDeliveryDate" \in DOMAIN st.purchaseOrders[k]
     /\ st.purchaseOrders[k].expectedDeliveryDate < now}

\* dates are days counted from the construction of the storage; now is the
\* day of the call
getDelayedPurchaseOrders(st, now) ==
  {k \in DOMAIN st.purchaseOrders :
     /\ st.purchaseOrders[k].status \in {"pending", "confirmed"}
     /\ "expectedDeliveryDate" \in DOMAIN st.purchaseOrders[k]
     /\ st.purchaseOrders[k].expectedDeliveryDate < now}

getPendingOutputs(st) ==
  {k \in DOMAIN st.outputs : st.outputs[k].status = "pending"}

\* the ids of the details of one output, in insertion (= id) order
getOutputDetails(st, outputId) ==
  {d \in DOMAIN st.outputDetails : st.outputDetails[d].outputId = outputId}

\* the ids of the movements that GET /api/inventory/movements?productId=
\* returns
getInventoryMovements(st, productId) ==
  {m \in DOMAIN st.inventoryMovements :
     st.inventoryMovements[m].productId = productId}

getPurchaseOrderDetails(st, purchaseOrderId) ==
  {d \in DOMAIN st.purchaseOrderDetails :
     st.purchaseOrderDetails[d].purchaseOrderId = purchaseOrderId}

(***************************************************************************)
(* The constructor and the seed data.                                      *)
(***************************************************************************)
EmptyStorage ==
  [users |-> <<>>, suppliers |-> <<>>, products |-> <<>>,
   requirements |-> <<>>, requirementDetails |-> <<>>,
   purchaseOrders |-> <<>>, purchaseOrderDetails |-> <<>>,
   receptions |-> <<>>, receptionDetails |-> <<>>,
   inventoryMovements |-> <<>>, outputs |-> <<>>, outputDetails |-> <<>>,
   invoices |-> <<>>, systemActivities |-> <<>>,
   userId |-> 1, supplierId |-> 1, productId |-> 1, requirementId |-> 1,
   requirementDetailId |-> 1, purchaseOrderId |-> 1,
   purchaseOrderDetailId |-> 1, receptionId |-> 1, receptionDetailId |-> 1,
   inventoryMovementId |-> 1, outputId |-> 1, outputDetailId |-> 1,
   invoiceId |-> 1, systemActivityId |-> 1]

RECURSIVE CreateAll(_, _, _, _)
CreateAll(st, mp, ctr, bodies) ==
  IF bodies = <<>> THEN st
  ELSE CreateAll(Create(st, mp, ctr, Head(bodies)).st, mp, ctr, Tail(bodies))

\* a sequence of <<productId, quantity>> stock updates
RECURSIVE UpdateStockAll(_, _)
UpdateStockAll(st, ups) ==
  IF ups = <<>> THEN st
  ELSE UpdateStockAll(updateProductStock(st, Head(ups)[1], Head(ups)[2]).st,
                      Tail(ups))

SeedSuppliers ==
  << [status |-> "active"], [status |-> "active"], [status |-> "active"] >>

SeedProducts ==
  << [code |-> "TH-5-16", minStock |-> Num(25), currentStock |-> Num(8),
      supplierId |-> 1],
     [code |-> "CE-12AWG", minStock |-> Num(50), currentStock |-> Num(15),
      supplierId |-> 2],
     [code |-> "LI-TIPO-A", minStock |-> Num(5), currentStock |-> Num(2),
      supplierId |-> 3],
     [code |-> "TU-PVC-2", minStock |-> Num(30), currentStock |-> Num(45),
      supplierId |-> 1],
     [code |-> "FO-LED-20W", minStock |-> Num(15), currentStock |-> Num(28),
      supplierId |-> 2] >>

SeedRequirements ==
  << [code |-> "REQ-2023-001", status |-> "pending"],
     [code |-> "REQ-2023-002", status |-> "approved"],
     [code |-> "REQ-2023-003", status |-> "completed"] >>

SeedRequirementDetails ==
  << [requirementId |-> 1, productId |-> 1, quantity |-> 50, status |-> "pending"],
     [requirementId |-> 1, productId |-> 3, quantity |-> 10, status |-> "pending"],
     [requirementId |-> 2, productId |-> 2, quantity |-> 100, status |-> "approved"],
     [requirementId |-> 2, productId |-> 5, quantity |-> 30, status |-> "approved"],
     [requirementId |-> 3, productId |-> 4, quantity |-> 20, status |-> "completed"] >>

SeedPurchaseOrders ==
  << [code |-> "OC-2023-001", supplierId |-> 1, requirementId |-> 1,
      status |-> "pending", expectedDeliveryDate |-> 2],
     [code |-> "OC-2023-002", supplierId |-> 2, requirementId |-> 2,
      status |-> "confirmed", expectedDeliveryDate |-> 7],
     [code |-> "OC-2023-003", supplierId |-> 1, requirementId |-> 3,
      status |-> "completed", expectedDeliveryDate |-> -3] >>

SeedPurchaseOrderDetails ==
  << [purchaseOrderId |-> 1, productId |-> 1, quantity |-> 50],
     [purchaseOrderId |-> 1, productId |-> 3, quantity |-> 5],
     [purchaseOrderId |-> 2, productId |-> 2, quantity |-> 100],
     [purchaseOrderId |-> 2, productId |-> 5, quantity |-> 30],
     [purchaseOrderId |-> 3, productId |-> 4, quantity |-> 20] >>

SeedReceptions ==
  << [code |-> "REC-2023-001", purchaseOrderId |-> 3, supplierId |-> 1,
      status |-> "completed"],
     [code |-> "REC-2023-002", purchaseOrderId |-> 2, supplierId |-> 2,
      status |-> "partial"],
     [code |-> "REC-2023-003", purchaseOrderId |-> 1, supplierId |-> 1,
      status |-> "scheduled"] >>

SeedReceptionDetails ==
  << [receptionId |-> 1, purchaseOrderDetailId |-> 5, productId |-> 4,
      quantityExpected |-> 20, quantityReceived |-> 20, status |-> "completed"],
     [receptionId |-> 2, purchaseOrderDetailId |-> 3, productId |-> 2,
      quantityExpected |-> 100, quantityReceived |-> 75, status |-> "partial"],
     [receptionId |-> 2, purchaseOrderDetailId |-> 4, productId |-> 5,
      quantityExpected |-> 30, quantityReceived |-> 30, status |-> "completed"] >>

SeedReceptionStock == << <<4, 20>>, <<2, 75>>, <<5, 30>> >>

SeedInventoryMovements ==
  << [productId |-> 4, quantity |-> 20, movementType |-> "reception",
      referenceId |-> 1, referenceType |-> "reception"],
     [productId |-> 2, quantity |-> 75, movementType |-> "reception",
      referenceId |-> 2, referenceType |-> "reception"],
     [productId |-> 5, quantity |-> 30, movementType |-> "reception",
      referenceId |-> 2, referenceType |-> "reception"],
     [productId |-> 4, quantity |-> -5, movementType |-> "output",
      referenceId |-> 1, referenceType |-> "output"],
     [productId |-> 5, quantity |-> -10, movementType |-> "output",
      referenceId |-> 2, referenceType |-> "output"],
     [productId |-> 1, quantity |-> -2, movementType |-> "output",
      referenceId |-> 3, referenceType |-> "output"],
     [productId |-> 3, quantity |-> -1, movementType |-> "output",
      referenceId |-> 3, referenceType |-> "output"] >>

SeedOutputs ==
  << [code |-> "SAL-2023-001", status |-> "completed"],
     [code |-> "SAL-2023-002", status |-> "completed"],
     [code |-> "SAL-2023-003", status |-> "pending"] >>

SeedOutputDetails ==
  << [outputId |-> 1, productId |-> 4, quantity |-> 5, status |-> "completed"],
     [outputId |-> 2, productId |-> 5, quantity |-> 10, status |-> "completed"],
     [outputId |-> 3, productId |-> 1, quantity |-> 2, status |-> "pending"],
     [outputId |-> 3, productId |-> 3, quantity |-> 1, status |-> "pending"] >>

\* variant: only the details of completed outputs lower the stock
SeedOutputStock_CompletedOnly == << <<4, -5>>, <<5, -10>> >>

SeedOutputStock == << <<4, -5>>, <<5, -10>>, <<1, -2>>, <<3, -1>> >>

SeedInvoices ==
  << [code |-> "INV-2023-001", supplierId |-> 1, purchaseOrderId |-> 3,
      status |-> "paid"],
     [code |-> "INV-2023-002", supplierId |-> 2, purchaseOrderId |-> 2,
      status |-> "pending"],
     [code |-> "INV-2023-003", supplierId |-> 3, purchaseOrderId |-> NoId,
      status |-> "pending"] >>

SeedActivities ==
  << [activityType |-> "create", entityType |-> "purchase_order", entityId |-> 1],
     [activityType |-> "update", entityType |-> "purchase_order", entityId |-> 2],
     [activityType |-> "create", entityType |-> "reception", entityId |-> 1],
     [activityType |-> "create", entityType |-> "output", entityId |-> 1],
     [activityType |-> "create", entityType |-> "invoice", entityId |-> 1],
     [activityType |-> "update", entityType |-> "product", entityId |-> 4],
     [activityType |-> "create", entityType |-> "output", entityId |-> 2],
     [activityType |-> "create", entityType |-> "requirement", entityId |-> 1] >>

seedInitialData(st0) ==
  LET s1 == CreateAll(st0, "suppliers", "supplierId", SeedSuppliers)
      s2 == CreateAll(s1, "products", "productId", SeedProducts)
      s3 == CreateAll(s2, "requirements", "requirementId", SeedRequirements)
      s4 == CreateAll(s3, "requirementDetails", "requirementDetailId",
                      SeedRequirementDetails)
      s5 == CreateAll(s4, "purchaseOrders", "purchaseOrderId", SeedPurchaseOrders)
      s6 == CreateAll(s5, "purchaseOrderDetails", "purchaseOrderDetailId",
                      SeedPurchaseOrderDetails)
      s7 == CreateAll(s6, "receptions", "receptionId", SeedReceptions)
      s8 == CreateAll(s7, "receptionDetails", "receptionDetailId",
                      SeedReceptionDetails)
      s9 == UpdateStockAll(s8, SeedReceptionStock)
      s10 == CreateAll(s9, "inventoryMovements", "inventoryMovementId",
                       SeedInventoryMovements)
      s11 == CreateAll(s10, "outputs", "outputId", SeedOutputs)
      s12 == CreateAll(s11, "outputDetails", "outputDetailId", SeedOutputDetails)
      s13 == UpdateStockAll(s12, SeedOutputStock)
      s14 == CreateAll(s13, "invoices", "invoiceId", SeedInvoices)
  IN CreateAll(s14, "systemActivities", "systemActivityId", SeedActivities)

\* new MemStorage()
Constructor ==
  seedInitialData(createUser(EmptyStorage, [role |-> "admin"]).st)

(***************************************************************************)
(* REST handlers without stock bookkeeping.  A handler is a function of    *)
(* the storage and the request; it returns the storage it leaves and the   *)
(* HTTP status.  `valid` is the outcome of the zod schema's parse of the   *)
(* request body (a ZodError is answered with 400).                         *)
(***************************************************************************)
Reply(st, code) == [st |-> st, code |-> code]

\* variant: the handler answers without recording the activity
LogActivity_Unrecorded(st, activityType, entityType, entityId) == st

LogActivity(st, activityType, entityType, entityId) ==
  createSystemActivity(st, [activityType |-> activityType,
                            entityType |-> entityType,
                            entityId |-> entityId]).st

\* GET /api/<entity>/:id and GET /api/<parent>/:id/details
GetById(st, mp, id) ==
  IF ~Has(st[mp], id) THEN Reply(st, 404) ELSE Reply(st, 200)

\* POST /api/<entity>
PostEntity(st, mp, valid, body, entityType) ==
  IF ~valid THEN Reply(st, 400)
  ELSE LET c == storageCreate(st, mp, body)
       IN Reply(LogActivity(c.st, "create", entityType, c.ret.id), 201)

\* PUT /api/<entity>/:id (all but outputs)
PutEntity(st, mp, id, valid, patch, entityType) ==
  IF ~valid THEN Reply(st, 400)
  ELSE LET u == storageUpdate(st, mp, id, patch)
       IN IF ~u.found THEN Reply(u.st, 404)
          ELSE Reply(LogActivity(u.st, "update", entityType, u.ret.id), 200)

\* DELETE /api/suppliers/:id and DELETE /api/products/:id
DeleteEntity(st, mp, id, entityType) ==
  IF ~Has(st[mp], id) THEN Reply(st, 404)
  ELSE LET d == storageDelete(st, mp, id)
       IN IF d.ret
          THEN Reply(LogActivity(d.st, "delete", entityType, id), 204)
          ELSE Reply(d.st, 500)

\* POST /api/requirements/:id/details and /api/purchase-orders/:id/details
PostDetail(st, mp, detailMp, parentField, parentId, valid, body) ==
  IF ~Has(st[mp], parentId) THEN Reply(st, 404)
  ELSE IF ~valid THEN Reply(st, 400)
  ELSE Reply(storageCreate(st, detailMp,
                           Spread(body, [f \in {parentField} |-> parentId])).st,
             201)

\* a handler that writes before it looks at the outcome of the parse
PostActivity_WriteFirst(st, valid, body) ==
  LET c == createSystemActivity(st, body)
  IN IF ~valid THEN Reply(c.st, 400) ELSE Reply(c.st, 201)

\* GET /api/dashboard: the counts and the ids of the listed records (the
\* lists of receptions, invoices, activities and movements are left out)
Dashboard(st, now) ==
  [what |-> "dashboard",
   pendingRequirementsCount |-> Cardinality(getPendingRequirements(st)),
   activeOrdersCount |-> Cardinality(getActivePurchaseOrders(st)),
   pendingOutputsCount |-> Cardinality(getPendingOutputs(st)),
   lowStockProducts |-> getProductsWithLowStock(st),
   delayedOrders |-> getDelayedPurchaseOrders(st, now)]

\* POST /api/activities
PostActivity(st, valid, body) ==
  IF ~valid THEN Reply(st, 400)
  ELSE Reply(createSystemActivity(st, body).st, 201)

(***************************************************************************)
(* REST handlers with stock bookkeeping.  Each of them awaits several      *)
(* storage calls, so it is a small state machine: a request carries the    *)
(* handler's local variables (loc) and the storage call it is suspended at *)
(* (pc).  One step runs the handler from one await to the next: the code   *)
(* after the await it is suspended at, up to and including the next        *)
(* storage call, whose effect on the storage is immediate.                 *)
(***************************************************************************)
Req(op, id, valid, body) ==
  [op |-> op, id |-> id, valid |-> valid, body |-> body,
   pc |-> "start", code |-> 0, missing |-> FALSE, loc |-> <<>>]

Goto(st, r, pc, loc) ==
  [st |-> st, r |-> [r EXCEPT !.pc = pc, !.loc = Spread(r.loc, loc)]]

Respond(st, r, code) ==
  [st |-> st, r |-> [r EXCEPT !.pc = "done", !.code = code]]

NotFound(st, r) ==
  [st |-> st, r |-> [r EXCEPT !.pc = "done", !.code = 404, !.missing = TRUE]]

RECURSIVE SortedSeq(_)
SortedSeq(S) ==
  IF S = {} THEN <<>>
  ELSE LET m == CHOOSE x \in S : \A y \in S : x <= y
       IN <<m>> \o SortedSeq(S \ {m})

\* POST /api/receptions/:id/details
PostReceptionDetailStep(st, r) ==
  CASE r.pc = "start" ->
         Goto(st, r, "getReception", [found |-> Has(st.receptions, r.id)])
    [] r.pc = "getReception" ->
         IF ~r.loc.found THEN NotFound(st, r)
         ELSE IF ~r.valid THEN Respond(st, r, 400)
         ELSE LET c == createReceptionDetail(
                         st, Spread(r.body, [receptionId |-> r.id]))
              IN Goto(c.st, r, "createReceptionDetail",
                      [reception |-> st.receptions[r.id], detail |-> c.ret])
    [] r.pc = "createReceptionDetail" ->
         IF r.loc.detail.status \in {"completed", "partial"}
         THEN Goto(st, r, "getProduct",
                   [product |-> Has(st.products, r.loc.detail.productId)])
         ELSE Respond(st, r, 201)
    [] r.pc = "getProduct" ->
         IF r.loc.product
         THEN Goto(updateProductStock(st, r.loc.detail.productId,
                                      r.loc.detail.quantityReceived).st,
                   r, "updateProductStock", <<>>)
         ELSE Respond(st, r, 201)
    [] r.pc = "updateProductStock" ->
         Goto(createInventoryMovement(
                st, [productId |-> r.loc.detail.productId,
                     quantity |-> r.loc.detail.quantityReceived,
                     movementType |-> "reception",
                     referenceId |-> r.loc.reception.id,
                     referenceType |-> "reception"]).st,
              r, "createInventoryMovement", <<>>)
    [] r.pc = "createInventoryMovement" -> Respond(st, r, 201)

\* POST /api/outputs/:id/details
PostOutputDetailStep(st, r) ==
  CASE r.pc = "start" ->
         Goto(st, r, "getOutput", [found |-> Has(st.outputs, r.id)])
    [] r.pc = "getOutput" ->
         IF ~r.loc.found THEN NotFound(st, r)
         ELSE IF ~r.valid THEN Respond(st, r, 400)
         ELSE LET c == createOutputDetail(
                         st, Spread(r.body, [outputId |-> r.id]))
              IN Goto(c.st, r, "createOutputDetail",
                      [output |-> st.outputs[r.id], detail |-> c.ret])
    [] r.pc = "createOutputDetail" ->
         IF r.loc.output.status = "completed"
            \/ r.loc.detail.status = "completed"
         THEN Goto(st, r, "getProduct",
                   [product |-> Has(st.products, r.loc.detail.productId)])
         ELSE Respond(st, r, 201)
    [] r.pc = "getProduct" ->
         IF r.loc.product
         THEN Goto(updateProductStock(st, r.loc.detail.productId,
                                      0 - r.loc.detail.quantity).st,
                   r, "updateProductStock", <<>>)
         ELSE Respond(st, r, 201)
    [] r.pc = "updateProductStock" ->
         Goto(createInventoryMovement(
                st, [productId |-> r.loc.detail.productId,
                     quantity |-> 0 - r.loc.detail.quantity,
                     movementType |-> "output",
                     referenceId |-> r.loc.output.id,
                     referenceType |-> "output"]).st,
              r, "createInventoryMovement", <<>>)
    [] r.pc = "createInventoryMovement" -> Respond(st, r, 201)

\* PUT /api/outputs/:id: the head of `for (const detail of details)`, from
\* index i of the details read by getOutputDetails; after the loop,
\* storage.updateOutput
PutOutputLoop(st, r, i) ==
  LET details == r.loc.details
      todo == {j \in i..Len(details) : details[j].status # "completed"}
  IN IF todo = {}
     THEN LET u == updateOutput(st, r.id, r.body)
          IN Goto(u.st, r, "updateOutput", [updated |-> u.found])
     ELSE LET j == CHOOSE x \in todo : \A y \in todo : x <= y
          IN Goto(updateProductStock(st, details[j].productId,
                                     0 - details[j].quantity).st,
                  r, "updateProductStock", [i |-> j])

\* PUT /api/outputs/:id
PutOutputStep(st, r) ==
  CASE r.pc = "start" ->
         IF ~r.valid THEN Respond(st, r, 400)
         ELSE Goto(st, r, "getOutput", [found |-> Has(st.outputs, r.id)])
    [] r.pc = "getOutput" ->
         IF ~r.loc.found THEN NotFound(st, r)
         ELSE IF /\ "status" \in DOMAIN r.body
                 /\ r.body.status = "completed"
                 /\ st.outputs[r.id].status # "completed"
         THEN Goto(st, r, "getOutputDetails",
                   [details |-> [j \in 1..Cardinality(getOutputDetails(st, r.id))
                                   |-> st.outputDetails[
                                         SortedSeq(getOutputDetails(st, r.id))[j]]]])
         ELSE LET u == updateOutput(st, r.id, r.body)
              IN Goto(u.st, r, "updateOutput", [updated |-> u.found])
    [] r.pc = "getOutputDetails" -> PutOutputLoop(st, r, 1)
    [] r.pc = "updateProductStock" ->
         Goto(updateOutputDetail(st, r.loc.details[r.loc.i].id,
                                 [status |-> "completed"]).st,
              r, "updateOutputDetail", <<>>)
    [] r.pc = "updateOutputDetail" ->
         Goto(createInventoryMovement(
                st, [productId |-> r.loc.details[r.loc.i].productId,
                     quantity |-> 0 - r.loc.details[r.loc.i].quantity,
                     movementType |-> "output",
                     referenceId |-> r.id,
                     referenceType |-> "output"]).st,
              r, "createInventoryMovement", <<>>)
    [] r.pc = "createInventoryMovement" -> PutOutputLoop(st, r, r.loc.i + 1)
    [] r.pc = "updateOutput" ->
         \* output.code of an undefined output throws: answered with 500
         IF ~r.loc.updated THEN Respond(st, r, 500)
         ELSE Goto(LogActivity(st, "update", "output", r.id),
                   r, "createSystemActivity", <<>>)
    [] r.pc = "createSystemActivity" -> Respond(st, r, 200)

\* POST /api/inventory/movements
PostMovementStep(st, r) ==
  CASE r.pc = "start" ->
         IF ~r.valid THEN Respond(st, r, 400)
         ELSE LET c == createInventoryMovement(st, r.body)
              IN Goto(c.st, r, "createInventoryMovement", [movement |-> c.ret])
    [] r.pc = "createInventoryMovement" ->
         Goto(updateProductStock(st, r.loc.movement.productId,
                                 r.loc.movement.quantity).st,
              r, "updateProductStock", <<>>)
    [] r.pc = "updateProductStock" ->
         Goto(LogActivity(st, "create", "inventory_movement", r.loc.movement.id),
              r, "createSystemActivity", <<>>)
    [] r.pc = "createSystemActivity" -> Respond(st, r, 201)

Step(st, r) ==
  CASE r.op = "POST /api/receptions/:id/details" -> PostReceptionDetailStep(st, r)
    [] r.op = "POST /api/outputs/:id/details" -> PostOutputDetailStep(st, r)
    [] r.op = "PUT /api/outputs/:id" -> PutOutputStep(st, r)
    [] r.op = "POST /api/inventory/movements" -> PostMovementStep(st, r)

\* the handler run from its start to its response with no other request
\* in between
RECURSIVE Run(_, _)
Run(st, r) ==
  IF r.pc = "done" THEN [st |-> st, r |-> r]
  ELSE LET n == Step(st, r) IN Run(n.st, n.r)

Handle(st, op, id, valid, body) ==
  LET out == Run(st, Req(op, id, valid, body))
  IN [st |-> out.st, code |-> out.r.code]

(***************************************************************************)
(* The client forms.  A form submit is a sequence of requests, each sent   *)
(* after the previous one was answered; apiRequest throws on a response    *)
(* that is not 2xx, which ends the submit.                                 *)
(***************************************************************************)
apiRequestOk(code) == code \in 200..299

\* ReceptionForm.handlePurchaseOrderChange: the lines pre-populated from the
\* details that GET /api/purchase-orders/:id/details returns ([] on an error)
handlePurchaseOrderChange(st, poId) ==
  IF GetById(st, "purchaseOrders", poId).code # 200 THEN <<>>
  ELSE LET ids == SortedSeq(getPurchaseOrderDetails(st, poId))
       IN [j \in 1..Len(ids) |->
             LET detail == st.purchaseOrderDetails[ids[j]]
             IN [purchaseOrderDetailId |-> detail.id,
                 productId |-> detail.productId,
                 quantityExpected |-> detail.quantity,
                 quantityReceived |-> detail.quantity,
                 status |-> "pending"]]

\* ReceptionForm.updateReceptionDetail of one line; value is a number when
\* the field is quantityReceived
updateReceptionDetail(detail, field, value) ==
  IF field = "quantityReceived"
  THEN IF value < 0 THEN detail
       ELSE [detail EXCEPT
               !.quantityReceived = value,
               !.status = IF value = 0 THEN "pending"
                          ELSE IF value < detail.quantityExpected THEN "partial"
                          ELSE "completed"]
  ELSE IF field = "status" THEN [detail EXCEPT !.status = value]
  ELSE detail

\* the detail requests of a form, one after the other, until one fails
RECURSIVE PostDetails(_, _, _, _)
PostDetails(st, op, parentId, bodies) ==
  IF bodies = <<>> THEN Reply(st, 201)
  ELSE LET out == Handle(st, op, parentId, TRUE, Head(bodies))
       IN IF apiRequestOk(out.code)
          THEN PostDetails(out.st, op, parentId, Tail(bodies))
          ELSE out

\* ReceptionForm.onSubmit; code 0: no request was sent
ReceptionFormSubmit(st, data, receptionDetails, valid) ==
  IF receptionDetails = <<>> THEN Reply(st, 0)
  ELSE LET res == PostEntity(st, "receptions", valid, data, "reception")
       IN IF ~apiRequestOk(res.code) THEN res
          ELSE PostDetails(res.st, "POST /api/receptions/:id/details",
                           st.receptionId, receptionDetails)

\* OutputForm.addDetail: nothing is added for a product that is not in the
\* form's product list
addDetail(products, details, productId, quantity) ==
  IF ~Has(products, productId) THEN details
  ELSE Append(details,
              [productId |-> productId, quantity |-> quantity,
               status |-> "pending",
               isOverStock |->
                 JsGreater(quantity,
                           Field(products[productId], "currentStock"))])

\* the lines <<productId, quantity>> a user adds, one after the other
RECURSIVE AddDetails(_, _, _)
AddDetails(products, details, ls) ==
  IF ls = <<>> THEN details
  ELSE AddDetails(products,
                  addDetail(products, details, Head(ls)[1], Head(ls)[2]),
                  Tail(ls))

\* OutputForm.onSubmit; code 0: no request was sent
OutputFormSubmit(st, data, details, valid) ==
  IF details = <<>> THEN Reply(st, 0)
  ELSE IF (\E j \in 1..Len(details) : details[j].isOverStock)
          /\ data.status = "completed"
  THEN Reply(st, 0)
  ELSE LET res == PostEntity(st, "outputs", valid, data, "output")
       IN IF ~apiRequestOk(res.code) THEN res
          ELSE PostDetails(
                 res.st, "POST /api/outputs/:id/details", st.outputId,
                 [j \in 1..Len(details) |->
                    [productId |-> details[j].productId,
                     quantity |-> details[j].quantity,
                     status |-> IF data.status = "completed"
                                THEN "completed" ELSE "pending"]])

\* id.toString() and parseInt of the value of a form's select, for the ids
\* and the "0" of the entry "Ninguno"
IdStrings == <<"1", "2", "3", "4", "5", "6", "7", "8", "9">>
toString(id) == IF id = 0 THEN "0" ELSE IdStrings[id]
parseInt(str) == CHOOSE n \in 0..Len(IdStrings) : toString(n) = str

getRequirementDetails(st, requirementId) ==
  {d \in DOMAIN st.requirementDetails :
     st.requirementDetails[d].requirementId = requirementId}

\* the entries of the purchase order form's requirement select
RequirementOptions(st) ==
  {"0"} \cup {toString(k) : k \in {x \in DOMAIN st.requirements :
                                     st.requirements[x].status = "approved"}}

\* PurchaseOrderForm.loadRequirementData: the form's requirementId and
\* details after it; form is [requirementId, details]
loadRequirementData(st, form, requirementId) ==
  IF /\ Has(st.requirements, requirementId)
     /\ st.requirements[requirementId].status = "approved"
  THEN LET ids == SortedSeq(getRequirementDetails(st, requirementId))
       IN [requirementId |-> toString(requirementId),
           details |-> [j \in 1..Len(ids) |->
                          [productId |-> st.requirementDetails[ids[j]].productId,
                           quantity |-> st.requirementDetails[ids[j]].quantity]]]
  ELSE form

\* onValueChange of the form's requirement select
selectRequirement(st, form, value) ==
  LET changed == [form EXCEPT !.requirementId = value]
  IN IF value # "0" THEN loadRequirementData(st, changed, parseInt(value))
     ELSE [changed EXCEPT !.details = <<>>]

\* the detail requests of the purchase order form, until one fails
RECURSIVE PostPurchaseOrderDetails(_, _, _)
PostPurchaseOrderDetails(st, purchaseOrderId, bodies) ==
  IF bodies = <<>> THEN Reply(st, 201)
  ELSE LET out == PostDetail(st, "purchaseOrders", "purchaseOrderDetails",
                             "purchaseOrderId", purchaseOrderId, TRUE,
                             Head(bodies))
       IN IF apiRequestOk(out.code)
          THEN PostPurchaseOrderDetails(out.st, purchaseOrderId, Tail(bodies))
          ELSE out

\* PurchaseOrderForm.onSubmit; data are the form's other fields; code 0: no
\* request was sent
PurchaseOrderFormSubmit(st, data, form, valid) ==
  IF form.details = <<>> THEN Reply(st, 0)
  ELSE LET purchaseOrderData ==
             Spread(data,
                    [requirementId |->
                       IF form.requirementId # ""
                       THEN parseInt(form.requirementId) ELSE NoId])
           res == PostEntity(st, "purchaseOrders", valid, purchaseOrderData,
                             "purchase_order")
       IN IF ~apiRequestOk(res.code) THEN res
          ELSE PostPurchaseOrderDetails(res.st, st.purchaseOrderId,
                                        form.details)

(***************************************************************************)
(* Requests.  Ids of the URL are drawn from a stored seed record, a record *)
(* created by an earlier request and an id that is never stored; bodies    *)
(* from the values below.                                                  *)
(***************************************************************************)
Invalid == [valid |-> FALSE, body |-> <<>>]
Inputs(bodies) == {Invalid} \cup {[valid |-> TRUE, body |-> x] : x \in bodies}

\* an id that no counter reaches
MissingId == 99

\* requests on /:id: every body for the stored ids, a valid and an invalid
\* body for the missing id
ForIds(ids, bodies) ==
  {[id |-> i, valid |-> x.valid, body |-> x.body] :
     i \in ids, x \in Inputs(bodies)} \cup
  {[id |-> MissingId, valid |-> v, body |-> CHOOSE x \in bodies : TRUE] :
     v \in BOOLEAN}

SupplierIds == {1, 3}
ProductIds == {3, 6}
RequirementIds == {1}
PurchaseOrderIds == {1}
ReceptionIds == {3}
DetailOutputIds == {1, 3}
OutputIds == {3, 4}
InvoiceIds == {3}
BodyProductIds == {3, 6, MissingId}

SupplierBodies == {[status |-> "active"]}
SupplierPatches == {<<>>, [status |-> "inactive"]}
ProductBodies ==
  {[code |-> "TH-5-16", supplierId |-> 1],
   [code |-> "P-2", supplierId |-> MissingId, minStock |-> Null,
    currentStock |-> Null],
   [code |-> "P-3", supplierId |-> NoId, minStock |-> Num(5),
    currentStock |-> Num(5)]}
ProductPatches == {<<>>, [currentStock |-> Num(0)], [supplierId |-> MissingId]}
RequirementBodies ==
  {[code |-> "REQ-1", status |-> "pending"],
   [code |-> "REQ-2", status |-> "approved"]}
RequirementPatches == {[status |-> "approved"]}
RequirementDetailBodies ==
  {[productId |-> p, quantity |-> 1, status |-> "pending"] :
     p \in {3, MissingId}}
PurchaseOrderBodies ==
  {[code |-> "OC-1", supplierId |-> sp, requirementId |-> rq,
    status |-> "pending"] :
     sp \in {1, MissingId}, rq \in {NoId, 1, 2}}
PurchaseOrderPatches == {[status |-> "completed"]}
PurchaseOrderDetailBodies ==
  {[productId |-> p, quantity |-> 1] : p \in {3, MissingId}}
ReceptionBodies ==
  {[code |-> "REC-1", purchaseOrderId |-> po, supplierId |-> 1,
    status |-> "pending"] :
     po \in {NoId, 1, MissingId}}
ReceptionPatches == {[status |-> "completed"]}
ReceptionDetailBodies ==
  {[purchaseOrderDetailId |-> NoId, productId |-> p, quantityExpected |-> 3,
    quantityReceived |-> 3, status |-> s] :
     p \in BodyProductIds, s \in {"completed", "partial", "pending"}}
InventoryMovementBodies ==
  {[productId |-> p, quantity |-> q, movementType |-> "adjustment",
    referenceId |-> NoId, referenceType |-> "adjustment"] :
     p \in BodyProductIds, q \in {-2, 3}}
OutputBodies ==
  {[code |-> "SAL-1", status |-> "pending"],
   [code |-> "SAL-2", status |-> "completed"]}
OutputPatches == {<<>>, [status |-> "completed"], [status |-> "pending"]}
OutputDetailBodies ==
  {[productId |-> p, quantity |-> 2, status |-> s] :
     p \in BodyProductIds, s \in {"completed", "pending"}}
InvoiceBodies ==
  {[code |-> "INV-1", supplierId |-> sp, purchaseOrderId |-> NoId,
    status |-> "pending"] :
     sp \in {1, MissingId}}
InvoicePatches == {[status |-> "paid"]}
ActivityBodies ==
  {[activityType |-> "create", entityType |-> "note", entityId |-> NoId]}

\* the edits of a reception form line: none, or a retyped quantity
LineEdits ==
  {[field |-> "none", value |-> 0], [field |-> "quantityReceived", value |-> 3]}
\* the purchase order selected in the reception form; 0 is "Ninguna"
FormPurchaseOrderIds == {0, 1, 3}

\* the code field of the forms, which propose <prefix>-<year>-<random
\* 001..999>: one value each
FormOutputCode == "SAL-2026-001"
FormReceptionCode == "REC-2026-001"

FormPurchaseOrderCode == "OC-2026-001"

\* the lines a user adds to an output form: <<productId, quantity>>
OutputLines == {<<3, 1>>, <<3, 2>>}
OutputLineSeqs == UNION {[1..n -> OutputLines] : n \in 0..MaxLines}

\* the body of the last response, for the responses whose body the
\* properties read (the dashboard, the GETs of a concurrent client): none
NoObservation == [what |-> "none", currentStock |-> Undefined, movements |-> {}]

NoResp ==
  [op |-> "none", entity |-> "none", valid |-> TRUE, missing |-> FALSE, code |-> 0]

Init ==
  /\ storage = Constructor
  /\ resp = NoResp
  /\ nreq = 0
  /\ inflight = <<>>
  /\ observed = NoObservation

(***************************************************************************)
(* Spec: requests are served one after the other.  With MemStorage every   *)
(* awaited promise is already resolved, so a handler runs to its response  *)
(* before the next request's callback starts.                              *)
(***************************************************************************)
Serve(op, entity, valid, missing, out) ==
  /\ storage' = out.st
  /\ resp' = [op |-> op, entity |-> entity, valid |-> valid,
              missing |-> missing, code |-> out.code]
  /\ nreq' = nreq + 1
  /\ observed' = NoObservation
  /\ UNCHANGED inflight

\* the days on which the dashboard is requested
Days == {0, 3}

GetDashboard ==
  \E now \in Days :
    /\ nreq < MaxRequests
    /\ resp' = [op |-> "GET /api/dashboard", entity |-> "dashboard",
                valid |-> TRUE, missing |-> FALSE, code |-> 200]
    /\ observed' = Dashboard(storage, now)
    /\ nreq' = nreq + 1
    /\ UNCHANGED <<storage, inflight>>

GetTargets ==
  {<<"users", 1>>, <<"suppliers", 1>>, <<"products", 3>>,
   <<"requirements", 1>>, <<"purchaseOrders", 1>>, <<"receptions", 3>>,
   <<"outputs", 3>>, <<"invoices", 3>>} \cup
  {<<mp, MissingId>> :
     mp \in {"users", "suppliers", "products", "requirements",
             "purchaseOrders", "receptions", "outputs", "invoices"}}

GetDetailTargets ==
  {<<"requirements", 1>>, <<"purchaseOrders", 1>>, <<"receptions", 3>>,
   <<"outputs", 3>>} \cup
  {<<mp, MissingId>> :
     mp \in {"requirements", "purchaseOrders", "receptions", "outputs"}}

GetEntity ==
  \E e \in GetTargets :
    /\ nreq < MaxRequests
    /\ Serve("GET :id", e[1], TRUE, ~Has(storage[e[1]], e[2]),
             GetById(storage, e[1], e[2]))

GetDetails ==
  \E e \in GetDetailTargets :
    /\ nreq < MaxRequests
    /\ Serve("GET :id/details", e[1], TRUE, ~Has(storage[e[1]], e[2]),
             GetById(storage, e[1], e[2]))

PostSupplier ==
  \E in \in Inputs(SupplierBodies) :
    /\ nreq < MaxRequests
    /\ Serve("POST", "suppliers", in.valid, FALSE,
             PostEntity(storage, "suppliers", in.valid, in.body,
                        "supplier"))

PutSupplier ==
  \E in \in ForIds({1}, SupplierPatches) :
    /\ nreq < MaxRequests
    /\ Serve("PUT :id", "suppliers", in.valid, ~Has(storage.suppliers, in.id),
             PutEntity(storage, "suppliers", in.id, in.valid, in.body,
                       "supplier"))

DeleteSupplier ==
  \E id \in SupplierIds \cup {MissingId} :
    /\ nreq < MaxRequests
    /\ Serve("DELETE :id", "suppliers", TRUE, ~Has(storage.suppliers, id),
             DeleteEntity(storage, "suppliers", id, "supplier"))

PostProduct ==
  \E in \in Inputs(ProductBodies) :
    /\ nreq < MaxRequests
    /\ Serve("POST", "products", in.valid, FALSE,
             PostEntity(storage, "products", in.valid, in.body, "product"))

PutProduct ==
  \E in \in ForIds(ProductIds, ProductPatches) :
    /\ nreq < MaxRequests
    /\ Serve("PUT :id", "products", in.valid, ~Has(storage.products, in.id),
             PutEntity(storage, "products", in.id, in.valid, in.body,
                       "product"))

DeleteProduct ==
  \E id \in ProductIds \cup {MissingId} :
    /\ nreq < MaxRequests
    /\ Serve("DELETE :id", "products", TRUE, ~Has(storage.products, id),
             DeleteEntity(storage, "products", id, "product"))

PostRequirement ==
  \E in \in Inputs(RequirementBodies) :
    /\ nreq < MaxRequests
    /\ Serve("POST", "requirements", in.valid, FALSE,
             PostEntity(storage, "requirements", in.valid, in.body,
                        "requirement"))

PutRequirement ==
  \E in \in ForIds(RequirementIds, RequirementPatches) :
    /\ nreq < MaxRequests
    /\ Serve("PUT :id", "requirements", in.valid,
             ~Has(storage.requirements, in.id),
             PutEntity(storage, "requirements", in.id, in.valid, in.body,
                       "requirement"))

PostRequirementDetail ==
  \E in \in ForIds(RequirementIds, RequirementDetailBodies) :
    /\ nreq < MaxRequests
    /\ Serve("POST :id/details", "requirements", in.valid,
             ~Has(storage.requirements, in.id),
             PostDetail(storage, "requirements", "requirementDetails",
                        "requirementId", in.id, in.valid, in.body))

PostPurchaseOrder ==
  \E in \in Inputs(PurchaseOrderBodies) :
    /\ nreq < MaxRequests
    /\ Serve("POST", "purchaseOrders", in.valid, FALSE,
             PostEntity(storage, "purchaseOrders", in.valid, in.body,
                        "purchase_order"))

PutPurchaseOrder ==
  \E in \in ForIds(PurchaseOrderIds, PurchaseOrderPatches) :
    /\ nreq < MaxRequests
    /\ Serve("PUT :id", "purchaseOrders", in.valid,
             ~Has(storage.purchaseOrders, in.id),
             PutEntity(storage, "purchaseOrders", in.id, in.valid, in.body,
                       "purchase_order"))

PostPurchaseOrderDetail ==
  \E in \in ForIds(PurchaseOrderIds, PurchaseOrderDetailBodies) :
    /\ nreq < MaxRequests
    /\ Serve("POST :id/details", "purchaseOrders", in.valid,
             ~Has(storage.purchaseOrders, in.id),
             PostDetail(storage, "purchaseOrders", "purchaseOrderDetails",
                        "purchaseOrderId", in.id, in.valid, in.body))

PostReception ==
  \E in \in Inputs(ReceptionBodies) :
    /\ nreq < MaxRequests
    /\ Serve("POST", "receptions", in.valid, FALSE,
             PostEntity(storage, "receptions", in.valid, in.body,
                        "reception"))

PutReception ==
  \E in \in ForIds(ReceptionIds, ReceptionPatches) :
    /\ nreq < MaxRequests
    /\ Serve("PUT :id", "receptions", in.valid, ~Has(storage.receptions, in.id),
             PutEntity(storage, "receptions", in.id, in.valid, in.body,
                       "reception"))

PostReceptionDetail ==
  \E in \in ForIds(ReceptionIds, ReceptionDetailBodies) :
    /\ nreq < MaxRequests
    /\ Serve("POST :id/details", "receptions", in.valid,
             ~Has(storage.receptions, in.id),
             Handle(storage, "POST /api/receptions/:id/details", in.id, in.valid,
                    in.body))

PostInventoryMovement ==
  \E in \in Inputs(InventoryMovementBodies) :
    /\ nreq < MaxRequests
    /\ Serve("POST", "inventoryMovements", in.valid, FALSE,
             Handle(storage, "POST /api/inventory/movements", 0, in.valid,
                    in.body))

PostOutput ==
  \E in \in Inputs(OutputBodies) :
    /\ nreq < MaxRequests
    /\ Serve("POST", "outputs", in.valid, FALSE,
             PostEntity(storage, "outputs", in.valid, in.body, "output"))

PostOutputDetail ==
  \E in \in ForIds(DetailOutputIds, OutputDetailBodies) :
    /\ nreq < MaxRequests
    /\ Serve("POST :id/details", "outputs", in.valid, ~Has(storage.outputs, in.id),
             Handle(storage, "POST /api/outputs/:id/details", in.id, in.valid,
                    in.body))

PutOutput ==
  \E in \in ForIds(OutputIds, OutputPatches) :
    /\ nreq < MaxRequests
    /\ Serve("PUT :id", "outputs", in.valid, ~Has(storage.outputs, in.id),
             Handle(storage, "PUT /api/outputs/:id", in.id, in.valid, in.body))

PostInvoice ==
  \E in \in Inputs(InvoiceBodies) :
    /\ nreq < MaxRequests
    /\ Serve("POST", "invoices", in.valid, FALSE,
             PostEntity(storage, "invoices", in.valid, in.body, "invoice"))

PutInvoice ==
  \E in \in ForIds(InvoiceIds, InvoicePatches) :
    /\ nreq < MaxRequests
    /\ Serve("PUT :id", "invoices", in.valid, ~Has(storage.invoices, in.id),
             PutEntity(storage, "invoices", in.id, in.valid, in.body,
                       "invoice"))

PostSystemActivity ==
  \E in \in Inputs(ActivityBodies) :
    /\ nreq < MaxRequests
    /\ Serve("POST", "systemActivities", in.valid, FALSE,
             PostActivity(storage, in.valid, in.body))

\* the lines of the reception form after the user's edits
RECURSIVE EditLines(_, _)
EditLines(lines, edits) ==
  IF lines = <<>> THEN <<>>
  ELSE <<updateReceptionDetail(Head(lines), Head(edits).field,
                               Head(edits).value)>>
       \o EditLines(Tail(lines), Tail(edits))

\* a user selects a purchase order in the reception form, edits the lines
\* and submits; the server accepts the reception's fields or not
SubmitReceptionForm ==
  \E poId \in FormPurchaseOrderIds :
    LET lines == handlePurchaseOrderChange(storage, poId)
        data == [code |-> FormReceptionCode, purchaseOrderId |-> poId,
                 supplierId |-> IF Has(storage.purchaseOrders, poId)
                                THEN storage.purchaseOrders[poId].supplierId
                                ELSE 1,
                 status |-> "pending"]
    IN \/ \E edits \in [1..Len(lines) -> LineEdits] :
            /\ nreq < MaxRequests
            /\ Serve("ReceptionForm", "receptions", TRUE, FALSE,
                     ReceptionFormSubmit(storage, data, EditLines(lines, edits),
                                         TRUE))
       \/ /\ nreq < MaxRequests
          /\ Serve("ReceptionForm", "receptions", FALSE, FALSE,
                   ReceptionFormSubmit(storage, data, lines, FALSE))

\* a user adds lines to the output form and submits; the server accepts the
\* output's fields or not
SubmitOutputForm ==
  \/ \E status \in {"pending", "completed"}, ls \in OutputLineSeqs :
       /\ nreq < MaxRequests
       /\ Serve("OutputForm", "outputs", TRUE, FALSE,
                OutputFormSubmit(storage,
                                 [code |-> FormOutputCode, status |-> status],
                                 AddDetails(storage.products, <<>>, ls), TRUE))
  \/ \E ls \in [1..1 -> OutputLines] :
       /\ nreq < MaxRequests
       /\ Serve("OutputForm", "outputs", FALSE, FALSE,
                OutputFormSubmit(storage,
                                 [code |-> FormOutputCode, status |-> "pending"],
                                 AddDetails(storage.products, <<>>, ls), FALSE))

\* a user opens the purchase order form, selects a requirement or not, adds
\* a line or not and submits; the server accepts the order's fields or not
SubmitPurchaseOrderForm ==
  LET empty == [requirementId |-> "", details |-> <<>>]
      data == [code |-> FormPurchaseOrderCode, supplierId |-> 1,
               status |-> "pending", expectedDeliveryDate |-> 1]
      line == [productId |-> 3, quantity |-> 1]
  IN \E form \in {empty} \cup {selectRequirement(storage, empty, v) :
                                  v \in RequirementOptions(storage)} :
       \/ \E added \in {<<>>, <<line>>} :
            /\ nreq < MaxRequests
            /\ Serve("PurchaseOrderForm", "purchaseOrders", TRUE, FALSE,
                     PurchaseOrderFormSubmit(
                       storage, data,
                       [form EXCEPT !.details = @ \o added], TRUE))
       \/ /\ nreq < MaxRequests
          /\ form.details # <<>>
          /\ Serve("PurchaseOrderForm", "purchaseOrders", FALSE, FALSE,
                   PurchaseOrderFormSubmit(storage, data, form, FALSE))

Next ==
  \/ GetEntity \/ GetDetails \/ GetDashboard
  \/ PostSupplier \/ PutSupplier \/ DeleteSupplier
  \/ PostProduct \/ PutProduct \/ DeleteProduct
  \/ PostRequirement \/ PutRequirement \/ PostRequirementDetail
  \/ PostPurchaseOrder \/ PutPurchaseOrder \/ PostPurchaseOrderDetail
  \/ PostReception \/ PutReception \/ PostReceptionDetail
  \/ PostInventoryMovement
  \/ PostOutput \/ PostOutputDetail \/ PutOutput
  \/ PostInvoice \/ PutInvoice
  \/ PostSystemActivity
  \/ SubmitReceptionForm \/ SubmitOutputForm \/ SubmitPurchaseOrderForm

Spec == Init /\ [][Next]_vars

(***************************************************************************)
(* SpecOutputs: one more request, over the requests that lead to the       *)
(* completion of an output: the creation of a product, of an output detail *)
(* and the PUT of an output.                                               *)
(***************************************************************************)
MaxOutputRequests == 3

OPostProduct ==
  \E in \in Inputs(ProductBodies) :
    /\ nreq < MaxOutputRequests
    /\ Serve("POST", "products", in.valid, FALSE,
             PostEntity(storage, "products", in.valid, in.body, "product"))

OPostOutputDetail ==
  \E in \in ForIds(DetailOutputIds, OutputDetailBodies) :
    /\ nreq < MaxOutputRequests
    /\ Serve("POST :id/details", "outputs", in.valid, ~Has(storage.outputs, in.id),
             Handle(storage, "POST /api/outputs/:id/details", in.id, in.valid,
                    in.body))

OPutOutput ==
  \E in \in ForIds(OutputIds, OutputPatches) :
    /\ nreq < MaxOutputRequests
    /\ Serve("PUT :id", "outputs", in.valid, ~Has(storage.outputs, in.id),
             Handle(storage, "PUT /api/outputs/:id", in.id, in.valid, in.body))

SpecOutputs ==
  Init /\ [][OPostProduct \/ OPostOutputDetail \/ OPutOutput]_vars

(***************************************************************************)
(* SpecAsync: the handlers with stock bookkeeping interleave at their      *)
(* awaits, as the Promise-returning IStorage interface allows: a request   *)
(* is started, then resumed one await at a time, and other requests run in *)
(* between, among them the GET requests of other clients.                  *)
(***************************************************************************)
\* the product the concurrent requests are about
AsyncProductId == 3

AsyncRequests ==
  {Req("POST /api/receptions/:id/details", 3, TRUE, b) :
     b \in {x \in ReceptionDetailBodies :
              x.productId = AsyncProductId /\ x.status = "completed"}} \cup
  {Req("POST /api/outputs/:id/details", 3, TRUE, b) :
     b \in {x \in OutputDetailBodies :
              x.productId = AsyncProductId /\ x.status = "completed"}} \cup
  {Req("PUT /api/outputs/:id", 3, TRUE, [status |-> "completed"])} \cup
  {Req("POST /api/inventory/movements", 0, TRUE, b) :
     b \in {x \in InventoryMovementBodies :
              x.productId = AsyncProductId /\ x.quantity > 0}}

\* a request arrives: its handler is started and suspended at once
AStart ==
  \E r \in AsyncRequests :
    /\ nreq < MaxRequests
    /\ Len(inflight) < MaxInFlight
    /\ inflight' = Append(inflight, r)
    /\ nreq' = nreq + 1
    /\ UNCHANGED <<storage, resp, observed>>

\* a suspended handler runs to its next await, or to its response
AStep ==
  \E i \in 1..Len(inflight) :
    LET n == Step(storage, inflight[i])
    IN /\ storage' = n.st
       /\ IF n.r.pc = "done"
          THEN /\ inflight' = [j \in 1..(Len(inflight) - 1) |->
                                 IF j < i THEN inflight[j] ELSE inflight[j + 1]]
               /\ resp' = [op |-> n.r.op, entity |-> "inventory",
                           valid |-> n.r.valid, missing |-> n.r.missing,
                           code |-> n.r.code]
          ELSE /\ inflight' = [inflight EXCEPT ![i] = n.r]
               /\ UNCHANGED resp
       /\ UNCHANGED <<nreq, observed>>

\* GET /api/products/:id of another client, answered while handlers are
\* suspended
AGetProduct ==
  /\ nreq < MaxRequests
  /\ inflight # <<>>
  /\ Has(storage.products, AsyncProductId)
  /\ observed' = [what |-> "product",
                  currentStock |->
                    Field(storage.products[AsyncProductId], "currentStock"),
                  movements |-> {}]
  /\ nreq' = nreq + 1
  /\ UNCHANGED <<storage, resp, inflight>>

\* GET /api/inventory/movements?productId= of another client
AGetMovements ==
  /\ nreq < MaxRequests
  /\ inflight # <<>>
  /\ observed' = [what |-> "movements", currentStock |-> Undefined,
                  movements |-> getInventoryMovements(storage, AsyncProductId)]
  /\ nreq' = nreq + 1
  /\ UNCHANGED <<storage, resp, inflight>>

NextAsync == AStart \/ AStep \/ AGetProduct \/ AGetMovements

SpecAsync == Init /\ [][NextAsync]_vars

(***************************************************************************)
(* Properties.                                                             *)
(***************************************************************************)
\* the sum of field f of the records of m with an id in ids
RECURSIVE SumField(_, _, _)
SumField(m, ids, f) ==
  IF ids = {} THEN 0
  ELSE LET i == CHOOSE x \in ids : TRUE
       IN m[i][f] + SumField(m, ids \ {i}, f)

\* the sum of the signed quantities of a product's inventory movements
MovementSum(st, productId) ==
  SumField(st.inventoryMovements, getInventoryMovements(st, productId),
           "quantity")

Stock(st, productId) == Field(st.products[productId], "currentStock")

\* a request was served by this step: resp' describes it
Served == nreq' = nreq + 1

\* the product's stock is a number after the step, the stock before it
\* (null counting as 0) plus q
StockChangedBy(st, st2, productId, q) ==
  /\ Has(st2.products, productId)
  /\ Stock(st, productId).t \in {"number", "null"}
  /\ Stock(st2, productId) = Num(Stock(st, productId).n + q)

\* the step added exactly one inventory movement, with these fields
MovementAdded(st, st2, productId, quantity, movementType, referenceId) ==
  LET id == st.inventoryMovementId
  IN /\ ~Has(st.inventoryMovements, id)
     /\ DOMAIN st2.inventoryMovements = DOMAIN st.inventoryMovements \cup {id}
     /\ \A k \in DOMAIN st.inventoryMovements :
          st2.inventoryMovements[k] = st.inventoryMovements[k]
     /\ st2.inventoryMovements[id].productId = productId
     /\ st2.inventoryMovements[id].quantity = quantity
     /\ st2.inventoryMovements[id].movementType = movementType
     /\ st2.inventoryMovements[id].referenceId = referenceId

\* C1: in every state reachable through the REST API, the currentStock of
\* every stored product is the sum of the signed quantities of the
\* product's inventory movements.
C1_StockIsMovementSum ==
  \A p \in DOMAIN storage.products :
    Stock(storage, p) = Num(MovementSum(storage, p))

\* C2: POST /api/receptions/:id/details with a valid body, for a stored
\* reception, stores the detail and answers 201; for a stored product, when
\* the detail's status is 'completed' or 'partial' the product's stock
\* increases by exactly quantityReceived and exactly one movement is added
\* (that quantity, type 'reception', referenceId the reception's id), and
\* otherwise neither the products nor the movements change.
C2_ReceptionDetailBookkeeping ==
  [][(/\ Served
      /\ resp'.op = "POST :id/details"
      /\ resp'.entity = "receptions"
      /\ resp'.valid
      /\ ~resp'.missing)
     => LET id == storage.receptionDetailId
        IN /\ resp'.code = 201
           /\ ~Has(storage.receptionDetails, id)
           /\ Has(storage'.receptionDetails, id)
           /\ LET d == storage'.receptionDetails[id]
              IN Has(storage.products, d.productId)
                 => IF d.status \in {"completed", "partial"}
                    THEN /\ StockChangedBy(storage, storage', d.productId,
                                           d.quantityReceived)
                         /\ MovementAdded(storage, storage', d.productId,
                                          d.quantityReceived, "reception",
                                          d.receptionId)
                    ELSE /\ storage'.products = storage.products
                         /\ storage'.inventoryMovements =
                              storage.inventoryMovements]_vars

\* C3: POST /api/outputs/:id/details with a valid body, for a stored output
\* and a stored product: when the output's status or the created detail's
\* status is 'completed', the product's stock decreases by exactly the
\* detail's quantity and exactly one movement is added (minus that quantity,
\* type 'output', referenceId the output's id); otherwise neither the
\* products nor the movements change.
C3_OutputDetailBookkeeping ==
  [][(/\ Served
      /\ resp'.op = "POST :id/details"
      /\ resp'.entity = "outputs"
      /\ resp'.valid
      /\ ~resp'.missing)
     => LET id == storage.outputDetailId
        IN /\ ~Has(storage.outputDetails, id)
           /\ Has(storage'.outputDetails, id)
           /\ LET d == storage'.outputDetails[id]
              IN Has(storage.products, d.productId)
                 => IF \/ storage.outputs[d.outputId].status = "completed"
                       \/ d.status = "completed"
                    THEN /\ StockChangedBy(storage, storage', d.productId,
                                           0 - d.quantity)
                         /\ MovementAdded(storage, storage', d.productId,
                                          0 - d.quantity, "output", d.outputId)
                    ELSE /\ storage'.products = storage.products
                         /\ storage'.inventoryMovements =
                              storage.inventoryMovements]_vars

\* C4: after a successful submit of the reception form, the stock of the
\* product of every line has increased by the quantityReceived of the
\* product's lines, pre-populated lines that were not edited included.
C4_ReceptionFormUpdatesStock ==
  [][(/\ Served
      /\ resp'.op = "ReceptionForm"
      /\ resp'.code = 201)
     => LET lines == DOMAIN storage'.receptionDetails
                       \ DOMAIN storage.receptionDetails
        IN \A k \in lines :
             LET p == storage'.receptionDetails[k].productId
             IN Has(storage.products, p)
                => StockChangedBy(
                     storage, storage', p,
                     SumField(storage'.receptionDetails,
                              {j \in lines :
                                 storage'.receptionDetails[j].productId = p},
                              "quantityReceived"))]_vars

\* C5: no submit of the output form and no PUT /api/outputs/:id completes
\* an output whose details request, in total, more of a product than the
\* product's stock at that time (so the form sends nothing when its status
\* is 'completed' and a line exceeds the stock).
C5_NoCompletionOverStock ==
  [][(/\ Served
      /\ resp'.entity = "outputs"
      /\ resp'.op \in {"OutputForm", "PUT :id"})
     => \A o \in DOMAIN storage'.outputs :
          (/\ storage'.outputs[o].status = "completed"
           /\ Has(storage.outputs, o) => storage.outputs[o].status # "completed")
          => \A p \in DOMAIN storage.products :
               ~JsGreater(
                  SumField(storage'.outputDetails,
                           {d \in getOutputDetails(storage', o) :
                              storage'.outputDetails[d].productId = p},
                           "quantity"),
                  Stock(storage, p))]_vars

\* what a suspended handler has written of its two writes for product p:
\* the quantity it has put into the stock and not yet into the movements
\* (negative for POST /api/inventory/movements, which writes the movement
\* first)
Pending(r, p) ==
  IF /\ r.op = "POST /api/receptions/:id/details"
     /\ r.pc = "updateProductStock"
     /\ r.loc.detail.productId = p
  THEN r.loc.detail.quantityReceived
  ELSE IF /\ r.op = "POST /api/outputs/:id/details"
          /\ r.pc = "updateProductStock"
          /\ r.loc.detail.productId = p
  THEN 0 - r.loc.detail.quantity
  ELSE IF /\ r.op = "PUT /api/outputs/:id"
          /\ r.pc \in {"updateProductStock", "updateOutputDetail"}
          /\ r.loc.details[r.loc.i].productId = p
  THEN 0 - r.loc.details[r.loc.i].quantity
  ELSE IF /\ r.op = "POST /api/inventory/movements"
          /\ r.pc = "createInventoryMovement"
          /\ r.loc.movement.productId = p
  THEN 0 - r.loc.movement.quantity
  ELSE 0

RECURSIVE PendingSum(_, _)
PendingSum(rs, p) ==
  IF rs = <<>> THEN 0 ELSE Pending(Head(rs), p) + PendingSum(Tail(rs), p)

\* C6: the handlers are not atomic: with handlers interleaving at their
\* awaits, the stock of a product and its movements differ from their
\* initial difference by exactly the writes of the handlers that are
\* suspended between their stock write and their movement write, and a
\* concurrent GET reads that intermediate state.
C6_GapIsPendingWrites ==
  \A p \in DOMAIN storage.products :
    /\ Stock(storage, p).t = "number"
    /\ Stock(storage, p).n - MovementSum(storage, p)
         = (Stock(Constructor, p).n - MovementSum(Constructor, p))
           + PendingSum(inflight, p)

\* a reception detail's handler is suspended between its two writes, and
\* the GET of another client has read the stock that its movement is
\* missing for
C6_IntermediateStateObserved ==
  /\ \E i \in 1..Len(inflight) :
       /\ inflight[i].op = "POST /api/receptions/:id/details"
       /\ inflight[i].pc = "updateProductStock"
  /\ observed.what = "product"
  /\ observed.currentStock = Stock(storage, AsyncProductId)
  /\ observed.currentStock.n - MovementSum(storage, AsyncProductId)
       # Stock(Constructor, AsyncProductId).n
           - MovementSum(Constructor, AsyncProductId)

\* the methods that answer a request body: POST and PUT
BodyOps == {"POST", "PUT :id", "POST :id/details"}

\* C7: a POST or PUT whose body fails validation is answered with 400 and
\* leaves the storage unchanged.
C7_InvalidBodyIs400 ==
  [][(Served /\ resp'.op \in BodyOps /\ ~resp'.valid)
     => (resp'.code = 400 /\ storage' = storage)]_vars

\* C7 (amended): a POST or PUT whose body fails validation leaves the
\* storage unchanged and is answered with 400, except that a POST to
\* /api/<parent>/:id/details of a parent that is not stored is answered
\* with 404.
C7_InvalidBodyRejected ==
  [][(Served /\ resp'.op \in BodyOps /\ ~resp'.valid)
     => /\ storage' = storage
        /\ resp'.code = IF resp'.op = "POST :id/details" /\ resp'.missing
                        THEN 404 ELSE 400]_vars

\* a POST with an invalid body was answered with 400
C7_InvalidPostAnswered ==
  /\ resp.op = "POST"
  /\ ~resp.valid
  /\ resp.code = 400

\* the requests on /:id and on /:id/details
IdOps == {"GET :id", "PUT :id", "DELETE :id", "GET :id/details",
          "POST :id/details"}

\* C8: a GET, PUT or DELETE of /api/<entity>/:id with an id that is not
\* stored, and a GET or POST of /api/<parent>/:id/details with a parent
\* that is not stored, is answered with 404 and leaves the storage
\* unchanged.
C8_MissingIdIs404 ==
  [][(Served /\ resp'.op \in IdOps /\ resp'.missing)
     => (resp'.code = 404 /\ storage' = storage)]_vars

\* C8 (amended): such a request leaves the storage unchanged and is
\* answered with 404, except that a PUT whose body fails validation is
\* answered with 400.
C8_MissingIdRejected ==
  [][(Served /\ resp'.op \in IdOps /\ resp'.missing)
     => /\ storage' = storage
        /\ resp'.code = IF resp'.op = "PUT :id" /\ ~resp'.valid
                        THEN 400 ELSE 404]_vars

\* a PUT of an id that is not stored, with a valid body, was answered 404
C8_MissingPutAnswered ==
  /\ resp.op = "PUT :id"
  /\ resp.missing
  /\ resp.valid
  /\ resp.code = 404

\* the id counter of every map of the storage
CounterOf ==
  [users |-> "userId", suppliers |-> "supplierId", products |-> "productId",
   requirements |-> "requirementId",
   requirementDetails |-> "requirementDetailId",
   purchaseOrders |-> "purchaseOrderId",
   purchaseOrderDetails |-> "purchaseOrderDetailId",
   receptions |-> "receptionId", receptionDetails |-> "receptionDetailId",
   inventoryMovements |-> "inventoryMovementId", outputs |-> "outputId",
   outputDetails |-> "outputDetailId", invoices |-> "invoiceId",
   systemActivities |-> "systemActivityId"]

\* C9: ids are auto-incremented per entity type: the seed's ids start at 1,
\* every create takes the id after the one of the previous create of the
\* type, so that an id is never assigned twice, also after a delete; and
\* every stored record's id is its key in the map.
C9_AutoIncrementIds ==
  /\ \A mp \in DOMAIN CounterOf :
       DOMAIN storage[mp] = 1..(storage[CounterOf[mp]] - 1)
  /\ [](\A mp \in DOMAIN CounterOf :
          \A k \in DOMAIN storage[mp] :
            /\ storage[mp][k].id = k
            /\ k \in 1..(storage[CounterOf[mp]] - 1))
  /\ [][\A mp \in DOMAIN CounterOf :
          /\ storage'[CounterOf[mp]] >= storage[CounterOf[mp]]
          /\ DOMAIN storage'[mp] \ DOMAIN storage[mp]
               = storage[CounterOf[mp]]..(storage'[CounterOf[mp]] - 1)]_vars

\* supplier 3 was deleted and the supplier created afterwards got id 4
C9_CreateAfterDelete ==
  /\ ~Has(storage.suppliers, 3)
  /\ Has(storage.suppliers, 4)
  /\ storage.supplierId = 5

\* a foreign key value refers to a stored record of the map, or is null
Refers(st, mp, id) == id = NoId \/ Has(st[mp], id)

\* C10: every non-null foreign key of a stored record refers to a stored
\* record: a product's supplierId, a purchase order's supplierId and
\* requirementId, a reception's purchaseOrderId and supplierId, an invoice's
\* supplierId and purchaseOrderId, a detail's parent id and productId, a
\* reception detail's purchaseOrderDetailId, a movement's productId.
C10_ReferentialIntegrity ==
  /\ \A k \in DOMAIN storage.products :
       Refers(storage, "suppliers", storage.products[k].supplierId)
  /\ \A k \in DOMAIN storage.purchaseOrders :
       /\ Refers(storage, "suppliers", storage.purchaseOrders[k].supplierId)
       /\ Refers(storage, "requirements",
                 storage.purchaseOrders[k].requirementId)
  /\ \A k \in DOMAIN storage.receptions :
       /\ Refers(storage, "purchaseOrders",
                 storage.receptions[k].purchaseOrderId)
       /\ Refers(storage, "suppliers", storage.receptions[k].supplierId)
  /\ \A k \in DOMAIN storage.invoices :
       /\ Refers(storage, "suppliers", storage.invoices[k].supplierId)
       /\ Refers(storage, "purchaseOrders", storage.invoices[k].purchaseOrderId)
  /\ \A k \in DOMAIN storage.requirementDetails :
       /\ Refers(storage, "requirements",
                 storage.requirementDetails[k].requirementId)
       /\ Refers(storage, "products", storage.requirementDetails[k].productId)
  /\ \A k \in DOMAIN storage.purchaseOrderDetails :
       /\ Refers(storage, "purchaseOrders",
                 storage.purchaseOrderDetails[k].purchaseOrderId)
       /\ Refers(storage, "products", storage.purchaseOrderDetails[k].productId)
  /\ \A k \in DOMAIN storage.receptionDetails :
       /\ Refers(storage, "receptions", storage.receptionDetails[k].receptionId)
       /\ Refers(storage, "purchaseOrderDetails",
                 storage.receptionDetails[k].purchaseOrderDetailId)
       /\ Refers(storage, "products", storage.receptionDetails[k].productId)
  /\ \A k \in DOMAIN storage.outputDetails :
       /\ Refers(storage, "outputs", storage.outputDetails[k].outputId)
       /\ Refers(storage, "products", storage.outputDetails[k].productId)
  /\ \A k \in DOMAIN storage.inventoryMovements :
       Refers(storage, "products", storage.inventoryMovements[k].productId)

\* the maps of the entities with a business code
CodedMaps ==
  {"products", "requirements", "purchaseOrders", "receptions", "outputs",
   "invoices"}

\* C11: business codes are unique: no two stored products share a code, and
\* likewise no two requirements, purchase orders, receptions, outputs or
\* invoices.
C11_UniqueCodes ==
  \A mp \in CodedMaps :
    \A a, b \in DOMAIN storage[mp] :
      a # b => storage[mp][a].code # storage[mp][b].code

\* C12: every stored product has a currentStock and a minStock (0 when the
\* request that created it gave none), so that stock changes add up and the
\* product is reported as low stock exactly while currentStock <= minStock.
C12_StockDefaultsToZero ==
  \A k \in DOMAIN storage.products :
    LET currentStock == Field(storage.products[k], "currentStock")
        minStock == Field(storage.products[k], "minStock")
    IN /\ currentStock.t \in {"number", "null"}
       /\ minStock.t \in {"number", "null"}
       /\ (k \in getProductsWithLowStock(storage))
            <=> (currentStock.n <= minStock.n)

\* C13: the dashboard that GET /api/dashboard has just answered aggregates
\* the stored state: the numbers of pending requirements, of purchase orders
\* that are pending or confirmed and of pending outputs, exactly the
\* products with currentStock <= minStock, and delayed orders that are all
\* active purchase orders.
C13_DashboardAggregates ==
  resp.op = "GET /api/dashboard"
  => /\ observed.pendingRequirementsCount
          = Cardinality({k \in DOMAIN storage.requirements :
                           storage.requirements[k].status = "pending"})
     /\ observed.activeOrdersCount
          = Cardinality({k \in DOMAIN storage.purchaseOrders :
                           storage.purchaseOrders[k].status
                             \in {"pending", "confirmed"}})
     /\ observed.pendingOutputsCount
          = Cardinality({k \in DOMAIN storage.outputs :
                           storage.outputs[k].status = "pending"})
     /\ observed.lowStockProducts
          = {k \in DOMAIN storage.products :
               LET currentStock == Field(storage.products[k], "currentStock")
                   minStock == Field(storage.products[k], "minStock")
               IN /\ currentStock.t \in {"number", "null"}
                  /\ minStock.t \in {"number", "null"}
                  /\ currentStock.n <= minStock.n}
     /\ \A k \in observed.delayedOrders :
          /\ Has(storage.purchaseOrders, k)
          /\ storage.purchaseOrders[k].status \in {"pending", "confirmed"}

\* the dashboard was answered after a request changed the purchase orders,
\* and it lists a delayed order
C13_DashboardAfterChange ==
  /\ resp.op = "GET /api/dashboard"
  /\ storage.purchaseOrders # Constructor.purchaseOrders
  /\ observed.delayedOrders # {}
  /\ observed.lowStockProducts # {}

\* C14: every purchase order is created with a null requirementId or with
\* the id of a stored requirement whose status is 'approved' at that time;
\* so is every order that the purchase order form creates, which loads a
\* requirement's data only when the requirement is approved.
C14_OrderFromApprovedRequirement ==
  [][Served
     => \A k \in DOMAIN storage'.purchaseOrders \ DOMAIN storage.purchaseOrders :
          LET requirementId == storage'.purchaseOrders[k].requirementId
          IN \/ requirementId = NoId
             \/ /\ Has(storage.requirements, requirementId)
                /\ storage.requirements[requirementId].status = "approved"]_vars

\* the todo details each have one of the new movements: minus the detail's
\* quantity of its product, of type 'output', referring to the output
MovementPerDetail(st, st2, todo, outputId) ==
  LET new == DOMAIN st2.inventoryMovements \ DOMAIN st.inventoryMovements
  IN /\ \A k \in DOMAIN st.inventoryMovements :
          /\ Has(st2.inventoryMovements, k)
          /\ st2.inventoryMovements[k] = st.inventoryMovements[k]
     /\ \E f \in [todo -> new] :
          /\ \A a, b \in todo : f[a] = f[b] => a = b
          /\ \A m \in new : \E a \in todo : f[a] = m
          /\ \A a \in todo :
               /\ st2.inventoryMovements[f[a]].productId
                    = st.outputDetails[a].productId
               /\ st2.inventoryMovements[f[a]].quantity
                    = 0 - st.outputDetails[a].quantity
               /\ st2.inventoryMovements[f[a]].movementType = "output"
               /\ st2.inventoryMovements[f[a]].referenceId = outputId

\* C15: a PUT /api/outputs/:id that sets an output that is not 'completed'
\* to 'completed' lowers, for every detail of the output that is not
\* 'completed', the stock of the detail's product by the detail's quantity
\* and adds one movement of minus that quantity referring to the output;
\* no other stock changes and no other movement is added; afterwards the
\* output and all its details are 'completed'.
C15_OutputCompletion ==
  [][(Served /\ resp'.op = "PUT :id" /\ resp'.entity = "outputs")
     => \A o \in DOMAIN storage.outputs :
          (/\ storage.outputs[o].status # "completed"
           /\ storage'.outputs[o].status = "completed")
          => LET todo == {d \in getOutputDetails(storage, o) :
                            storage.outputDetails[d].status # "completed"}
             IN /\ resp'.code = 200
                /\ \A d \in getOutputDetails(storage', o) :
                     storage'.outputDetails[d].status = "completed"
                /\ \A p \in DOMAIN storage.products :
                     LET mine == {d \in todo :
                                    storage.outputDetails[d].productId = p}
                     IN IF mine = {}
                        THEN storage'.products[p] = storage.products[p]
                        ELSE StockChangedBy(
                               storage, storage', p,
                               0 - SumField(storage.outputDetails, mine,
                                            "quantity"))
                /\ MovementPerDetail(storage, storage', todo, o)]_vars

\* C16: every POST /api/inventory/movements answered 201 recorded exactly
\* one new movement, changed the currentStock of the product the movement
\* names by exactly the movement's signed quantity and left every other
\* product's stock as it was.
C16_ManualMovementBookkeeping ==
  [][(/\ Served
      /\ resp'.op = "POST"
      /\ resp'.entity = "inventoryMovements"
      /\ resp'.code = 201)
     => LET id == storage.inventoryMovementId
        IN /\ DOMAIN storage'.inventoryMovements
                = DOMAIN storage.inventoryMovements \cup {id}
           /\ ~Has(storage.inventoryMovements, id)
           /\ \A k \in DOMAIN storage.inventoryMovements :
                storage'.inventoryMovements[k] = storage.inventoryMovements[k]
           /\ LET movement == storage'.inventoryMovements[id]
              IN /\ StockChangedBy(storage, storage', movement.productId,
                                   movement.quantity)
                 /\ \A p \in DOMAIN storage.products \ {movement.productId} :
                      storage'.products[p] = storage.products[p]]_vars

\* the movement is the one a reception detail gives rise to
OfReceptionDetail(movement, detail) ==
  /\ movement.movementType = "reception"
  /\ movement.productId = detail.productId
  /\ movement.quantity = detail.quantityReceived
  /\ movement.referenceId = detail.receptionId

\* the movement is the one an output detail gives rise to
OfOutputDetail(movement, detail) ==
  /\ movement.movementType = "output"
  /\ movement.productId = detail.productId
  /\ movement.quantity = 0 - detail.quantity
  /\ movement.referenceId = detail.outputId

SameMovement(a, b) ==
  /\ a.movementType = b.movementType
  /\ a.productId = b.productId
  /\ a.quantity = b.quantity
  /\ a.referenceId = b.referenceId

\* C17: in the state the constructor builds, every seeded product's
\* currentStock is the stock of its seed record plus the sum of the seeded
\* movements of the product, and the seeded stock changes are, one for one,
\* those of the seeded reception details (+quantityReceived) and output
\* details (-quantity), each with its movement.
C17_SeededStock ==
  nreq = 0 =>
    /\ \A p \in 1..Len(SeedProducts) :
         /\ Has(storage.products, p)
         /\ Stock(storage, p)
              = Num(SeedProducts[p].currentStock.n + MovementSum(storage, p))
    /\ Len(SeedReceptionStock) = Len(SeedReceptionDetails)
    /\ \A i \in 1..Len(SeedReceptionStock) :
         SeedReceptionStock[i] = << SeedReceptionDetails[i].productId,
                                    SeedReceptionDetails[i].quantityReceived >>
    /\ Len(SeedOutputStock) = Len(SeedOutputDetails)
    /\ \A i \in 1..Len(SeedOutputStock) :
         SeedOutputStock[i] = << SeedOutputDetails[i].productId,
                                 0 - SeedOutputDetails[i].quantity >>
    /\ \A d \in DOMAIN storage.receptionDetails :
         \E m \in DOMAIN storage.inventoryMovements :
           OfReceptionDetail(storage.inventoryMovements[m],
                             storage.receptionDetails[d])
    /\ \A d \in DOMAIN storage.outputDetails :
         \E m \in DOMAIN storage.inventoryMovements :
           OfOutputDetail(storage.inventoryMovements[m],
                          storage.outputDetails[d])
    /\ \A m \in DOMAIN storage.inventoryMovements :
         LET movement == storage.inventoryMovements[m]
         IN Cardinality({k \in DOMAIN storage.inventoryMovements :
                           SameMovement(storage.inventoryMovements[k], movement)})
              = Cardinality({d \in DOMAIN storage.receptionDetails :
                               OfReceptionDetail(movement,
                                                 storage.receptionDetails[d])})
                + Cardinality({d \in DOMAIN storage.outputDetails :
                                 OfOutputDetail(movement,
                                                storage.outputDetails[d])})

\* the constructed state: product 1 seeded with 8, lowered by output 3's
\* pending detail to 6, with the seven seeded movements
C17_ConstructedState ==
  /\ nreq = 0
  /\ Stock(storage, 1) = Num(6)
  /\ Stock(storage, 2) = Num(90)
  /\ Cardinality(DOMAIN storage.inventoryMovements) = Len(SeedInventoryMovements)
  /\ storage.outputDetails[3].status = "pending"

\* the entityType the handlers of a map log, and the activityType of a method
EntityTypeOf ==
  [suppliers |-> "supplier", products |-> "product",
   requirements |-> "requirement", purchaseOrders |-> "purchase_order",
   receptions |-> "reception", outputs |-> "output", invoices |-> "invoice",
   inventoryMovements |-> "inventory_movement"]

ActivityTypeOf(op) ==
  CASE op = "POST" -> "create"
    [] op = "PUT :id" -> "update"
    [] op = "DELETE :id" -> "delete"

\* the record the request created, updated or deleted is the one with this id
IsTarget(st, st2, op, mp, id) ==
  CASE op = "POST" -> /\ id = st[CounterOf[mp]]
                      /\ DOMAIN st2[mp] = DOMAIN st[mp] \cup {id}
    [] op = "PUT :id" -> /\ Has(st[mp], id)
                         /\ \A k \in DOMAIN st[mp] \ {id} :
                              Has(st2[mp], k) /\ st2[mp][k] = st[mp][k]
    [] op = "DELETE :id" -> /\ Has(st[mp], id)
                            /\ DOMAIN st2[mp] = DOMAIN st[mp] \ {id}

\* C18: every successful POST, PUT or DELETE of a supplier, product,
\* requirement, purchase order, reception, output or invoice, and every
\* successful POST /api/inventory/movements, records exactly one system
\* activity, with activityType create, update or delete, the entityType of
\* the entity and the record's id as entityId; a request answered 400 or
\* 404 records none.
C18_OneActivityPerChange ==
  [][(/\ Served
      /\ resp'.op \in {"POST", "PUT :id", "DELETE :id"}
      /\ resp'.entity \in DOMAIN EntityTypeOf)
     => LET new == DOMAIN storage'.systemActivities
                     \ DOMAIN storage.systemActivities
        IN /\ \A k \in DOMAIN storage.systemActivities :
                /\ Has(storage'.systemActivities, k)
                /\ storage'.systemActivities[k] = storage.systemActivities[k]
           /\ resp'.code \in {200, 201, 204}
                => \E a \in new :
                     /\ new = {a}
                     /\ storage'.systemActivities[a].activityType
                          = ActivityTypeOf(resp'.op)
                     /\ storage'.systemActivities[a].entityType
                          = EntityTypeOf[resp'.entity]
                     /\ IsTarget(storage, storage', resp'.op, resp'.entity,
                                 storage'.systemActivities[a].entityId)
           /\ resp'.code \in {400, 404} => new = {}]_vars

\* a product was deleted, which recorded the activity, and then a PUT of a
\* missing id was answered 404 and recorded none
C18_DeleteLoggedThenNotFound ==
  /\ resp.op = "PUT :id"
  /\ resp.code = 404
  /\ ~Has(storage.products, 3)
  /\ DOMAIN storage.systemActivities = 1..(Len(SeedActivities) + 1)
  /\ storage.systemActivities[Len(SeedActivities) + 1].activityType = "delete"
  /\ storage.systemActivities[Len(SeedActivities) + 1].entityType = "product"
  /\ storage.systemActivities[Len(SeedActivities) + 1].entityId = 3

\* what the product's stock holds beyond the sum of its movements (null
\* counting as 0); a stock that is no number stands for itself
StockGap(st, productId) ==
  IF Stock(st, productId).t \in {"number", "null"}
  THEN Num(Stock(st, productId).n - MovementSum(st, productId))
  ELSE Stock(st, productId)

\* C19: every request served from its start to its answer with no other
\* request in between leaves, for every product stored before and after
\* it, currentStock minus the sum of the product's movement quantities as
\* it was: the stock changes only together with a movement of the same
\* signed quantity.
C19_RequestsKeepStockGap ==
  [][Served
     => \A p \in DOMAIN storage.products \cap DOMAIN storage'.products :
          StockGap(storage', p) = StockGap(storage, p)]_vars

====
